---------------------------- MODULE Spec2Model ----------------------------
(* A model of plannerday-agent.py: the two tools of planner_agent          *)
(* (get_user_location_by_ip, get_weather), the run of the agent that calls  *)
(* them, and the cancellation of that run.                                  *)
(*                                                                          *)
(* Encodings.  TLA+ strings are ASCII here, so the Ukrainian literals of    *)
(* the fallback location are transliterated ("Kyiv" for 'Київ',             *)
(* "Kyivska oblast" for 'Київська область', "Ukraina" for 'Україна') and    *)
(* the degree sign is the one-character token "deg".  A formatted           *)
(* temperature is a sequence of characters, so that '21 °C' and '21°C' are  *)
(* different values.  Latitudes and longitudes are integers in units of     *)
(* 1/10000 degree (50.4501 is 504501); temperatures are integers in tenths  *)
(* of a degree (20.6 is 206).                                               *)
EXTENDS Integers, Sequences, FiniteSets, TLC

VARIABLES
    weather_api_key,  \* Deps.weather_api_key
    pc,               \* where the run is suspended
    run,              \* "running", "done", "failed" or "cancelled"
    calls,            \* names of the tool functions executed, in order
    requests,         \* GET requests issued on Deps.client, in order
    locResp,          \* <<>> or <<outcome of the geolocation GET>>
    location,         \* <<>> or <<value returned by get_user_location_by_ip>>
    wArgs,            \* <<>> or <<arguments of the last get_weather call>>
    wResp,            \* <<>> or <<outcome of the last weather GET>>
    weather,          \* <<>> or <<value returned by get_weather>>
    retries_used,     \* retry counter of the get_weather tool
    warnings,         \* number of logfire.warning entries
    error,            \* "" or the exception that ended the run
    cancelledAt,      \* "" or the pc at which the run was cancelled
    output            \* "" or the final answer of the run

vars == <<weather_api_key, pc, run, calls, requests, locResp, location,
          wArgs, wResp, weather, retries_used, warnings, error,
          cancelledAt, output>>

-----------------------------------------------------------------------------
(* Bounds *)

\* temperatures of the formatting check range over -MaxTenths..MaxTenths
MaxTenths == 225

-----------------------------------------------------------------------------
(* JSON values *)

Null == [t |-> "null", n |-> 0, s |-> ""]
Num(n) == [t |-> "num", n |-> n, s |-> ""]
Str(s) == [t |-> "str", n |-> 0, s |-> s]

EmptyObj == [k \in {} |-> Null]

\* mutant: `d.get(key) or default`, which also replaces a null value
DictGetOrDefault(d, key, default) ==
    IF key \in DOMAIN d /\ d[key].t # "null" THEN d[key] ELSE default

\* dict.get(key, default): the default only when the key is missing
DictGet(d, key, default) == IF key \in DOMAIN d THEN d[key] ELSE default

-----------------------------------------------------------------------------
(* Results of a tool function *)

NoLocation ==
    [city |-> Null, region |-> Null, country |-> Null, lat |-> Null, lng |-> Null]

NoReading == [temperature |-> <<>>, description |-> ""]

ReturnLocation(v) ==
    [kind |-> "return", exc |-> "", loc |-> v, reading |-> NoReading]

ReturnReading(v) ==
    [kind |-> "return", exc |-> "", loc |-> NoLocation, reading |-> v]

Raise(e) ==
    [kind |-> "raise", exc |-> e, loc |-> NoLocation, reading |-> NoReading]

\* exception classes derived from Exception that the tools can meet
ExceptionClasses ==
    {"ConnectError", "HTTPStatusError", "JSONDecodeError", "AttributeError",
     "KeyError", "TypeError", "ValueError", "ModelRetry"}

\* asyncio.CancelledError derives from BaseException, not from Exception
CancelledError == "CancelledError"

\* Response.raise_for_status() passes for 2xx only
IsSuccess(status) == status >= 200 /\ status <= 299

\* the outcome of an awaited GET: an exception, or a response with a status
\* and a body; json is "invalid" for a body that is not JSON, otherwise the
\* type of the decoded value, and obj is the decoded value when it is an object
GetRaises(e) ==
    [kind |-> "raise", exc |-> e, status |-> 0, json |-> "none", obj |-> EmptyObj]

GetResponse(status, json, obj) ==
    [kind |-> "response", exc |-> "", status |-> status, json |-> json, obj |-> obj]

-----------------------------------------------------------------------------
(* get_user_location_by_ip *)

LocFields == {"city", "region", "country_name", "latitude", "longitude"}

\* values a provider may send for a field: a string or null for the names,
\* a number inside the range, a number outside it, or null for the coordinates
LocFieldValues(k) ==
    CASE k = "city" -> {Str("Lviv"), Null}
      [] k = "region" -> {Str("Lviv Oblast"), Null}
      [] k = "country_name" -> {Str("Ukraine"), Null}
      [] k = "latitude" -> {Num(498397), Num(9990000), Null}
      [] k = "longitude" -> {Num(240297), Num(-1810000), Null}

\* a field is missing (<<>>) or present with one of its values
LocFieldOptions(k) == {<<>>} \cup {<<v>> : v \in LocFieldValues(k)}

\* the object that has exactly the fields opt gives a value to
ObjectOf(opt) ==
    [k \in {f \in DOMAIN opt : opt[f] # <<>>} |-> opt[k][1]]

LocObjects ==
    {ObjectOf("city" :> c @@ "region" :> r @@ "country_name" :> n @@
              "latitude" :> la @@ "longitude" :> lo) :
        c \in LocFieldOptions("city"), r \in LocFieldOptions("region"),
        n \in LocFieldOptions("country_name"),
        la \in LocFieldOptions("latitude"), lo \in LocFieldOptions("longitude")}

LocFailures ==
    {GetRaises("ConnectError"),
     GetResponse(404, "object", EmptyObj),
     GetResponse(429, "object", EmptyObj),
     GetResponse(500, "invalid", EmptyObj),
     GetResponse(200, "invalid", EmptyObj),
     GetResponse(200, "list", EmptyObj),
     GetResponse(200, "string", EmptyObj),
     GetResponse(200, "null", EmptyObj)}

LocOutcomes == LocFailures \cup {GetResponse(200, "object", o) : o \in LocObjects}

\* mutant: the coordinates of the fallback in the wrong order
FallbackSwapped ==
    [city |-> Str("Kyiv"), region |-> Str("Kyivska oblast"),
     country |-> Str("Ukraina"), lat |-> Num(305234), lng |-> Num(504501)]

Fallback ==
    [city |-> Str("Kyiv"), region |-> Str("Kyivska oblast"),
     country |-> Str("Ukraina"), lat |-> Num(504501), lng |-> Num(305234)]

\* mutant: `except httpx.HTTPError`
CaughtHTTPError(e) == e \in {"ConnectError", "HTTPStatusError"}

\* mutant: `except BaseException` (or a bare `except`)
CaughtBaseException(e) == e \in ExceptionClasses \cup {CancelledError}

\* the except clause of get_user_location_by_ip: `except Exception`
Caught(e) == e \in ExceptionClasses

\* the try block, resumed with the outcome of the awaited GET
LocationTry(o) ==
    IF o.kind = "raise" THEN Raise(o.exc)
    ELSE IF ~IsSuccess(o.status) THEN Raise("HTTPStatusError")
    ELSE IF o.json = "invalid" THEN Raise("JSONDecodeError")
    ELSE IF o.json # "object" THEN Raise("AttributeError")
    ELSE ReturnLocation(
            [city |-> DictGet(o.obj, "city", Str("Unknown")),
             region |-> DictGet(o.obj, "region", Str("Unknown")),
             country |-> DictGet(o.obj, "country_name", Str("Unknown")),
             lat |-> DictGet(o.obj, "latitude", Num(0)),
             lng |-> DictGet(o.obj, "longitude", Num(0))])

get_user_location_by_ip(o) ==
    LET r == LocationTry(o)
    IN  IF r.kind = "raise" /\ Caught(r.exc) THEN ReturnLocation(Fallback) ELSE r

\* logfire.warning runs once in the except clause
LocationWarns(o) ==
    LET r == LocationTry(o)
    IN  IF r.kind = "raise" /\ Caught(r.exc) THEN 1 ELSE 0

-----------------------------------------------------------------------------
(* get_weather *)

\* Deps.weather_api_key: os.getenv gives None when the variable is not set,
\* and the variable's text, which may be empty, when it is
NoKey == [set |-> FALSE, value |-> ""]
Key(v) == [set |-> TRUE, value |-> v]
KeyStates == {NoKey, Key(""), Key("secret")}

\* mutant: `if not ctx.deps.weather_api_key`
StubModeFalsy(key) == ~key.set \/ key.value = ""

\* `if ctx.deps.weather_api_key is None`
StubMode(key) == ~key.set

\* '21 °C'
StubReading ==
    [temperature |-> <<"2", "1", " ", "deg", "C">>, description |-> "Sunny"]

code_lookup ==
    1000 :> "Clear, Sunny" @@
    1100 :> "Mostly Clear" @@
    1101 :> "Partly Cloudy" @@
    1102 :> "Mostly Cloudy" @@
    1001 :> "Cloudy" @@
    2000 :> "Fog" @@
    2100 :> "Light Fog" @@
    4000 :> "Drizzle" @@
    4001 :> "Rain" @@
    4200 :> "Light Rain" @@
    4201 :> "Heavy Rain" @@
    5000 :> "Snow" @@
    5001 :> "Flurries" @@
    5100 :> "Light Snow" @@
    5101 :> "Heavy Snow" @@
    6000 :> "Freezing Drizzle" @@
    6001 :> "Freezing Rain" @@
    6200 :> "Light Freezing Rain" @@
    6201 :> "Heavy Freezing Rain" @@
    7000 :> "Ice Pellets" @@
    7101 :> "Heavy Ice Pellets" @@
    7102 :> "Light Ice Pellets" @@
    8000 :> "Thunderstorm"

\* mutant: `code_lookup.get(values['weatherCode'], '')`
CodeLookupGetEmpty(code) ==
    IF code \in DOMAIN code_lookup THEN code_lookup[code] ELSE ""

\* code_lookup.get(values['weatherCode'], 'Unknown')
CodeLookupGet(code) ==
    IF code \in DOMAIN code_lookup THEN code_lookup[code] ELSE "Unknown"

DigitChars == <<"0", "1", "2", "3", "4", "5", "6", "7", "8", "9">>

RECURSIVE Digits(_)
\* the decimal digits of a natural number
Digits(n) ==
    IF n < 10 THEN <<DigitChars[n + 1]>>
    ELSE Append(Digits(n \div 10), DigitChars[(n % 10) + 1])

\* mutant: halves rounded up, as int(x + 0.5) does
RoundTenthsHalfUp(m) == (m + 5) \div 10

\* the integer that '.0f' prints for a magnitude of m tenths: correctly
\* rounded, and an exact half (which a float represents exactly) goes to the
\* even neighbour
RoundTenths(m) ==
    LET q == m \div 10
        r == m % 10
    IN  IF r < 5 THEN q
        ELSE IF r > 5 THEN q + 1
        ELSE IF q % 2 = 0 THEN q ELSE q + 1

\* f'{x:0.0f}' for x = t tenths: the sign of the float, then the rounded
\* magnitude (so -0.3 prints as '-0')
Format0f(t) ==
    IF t < 0 THEN <<"-">> \o Digits(RoundTenths(-t)) ELSE Digits(RoundTenths(t))

\* a fetched body, or the exception that ended the fetch
Fetched(obj) == [kind |-> "data", exc |-> "", obj |-> obj]
FetchRaised(e) == [kind |-> "raise", exc |-> e, obj |-> EmptyObj]

\* the `with logfire.span` block, resumed with the outcome of the awaited
\* GET: raise_for_status, then r.json(); a decoded value that is not an
\* object fails at the first subscript after the block
WeatherFetch(o) ==
    IF o.kind = "raise" THEN FetchRaised(o.exc)
    ELSE IF ~IsSuccess(o.status) THEN FetchRaised("HTTPStatusError")
    ELSE IF o.json = "invalid" THEN FetchRaised("JSONDecodeError")
    ELSE IF o.json # "object" THEN FetchRaised("TypeError")
    ELSE Fetched(o.obj)

\* mutant: `values.get('weatherCode')` in place of the subscript
WeatherParseLenient(data) ==
    IF "data" \notin DOMAIN data THEN Raise("KeyError")
    ELSE IF "values" \notin DOMAIN data["data"] THEN Raise("KeyError")
    ELSE LET values == data["data"]["values"]
         IN  IF "temperatureApparent" \notin DOMAIN values THEN Raise("KeyError")
             ELSE IF values["temperatureApparent"].t = "null" THEN Raise("TypeError")
             ELSE IF values["temperatureApparent"].t = "str" THEN Raise("ValueError")
             ELSE ReturnReading(
                    [temperature |->
                        Format0f(values["temperatureApparent"].n) \o <<"deg", "C">>,
                     description |->
                        IF "weatherCode" \in DOMAIN values
                        THEN CodeLookupGet(values["weatherCode"].n)
                        ELSE "Unknown"])

\* from values = data['data']['values'] to the return: every subscript of a
\* missing key raises KeyError, and '0.0f' rejects a value that is no number
WeatherParse(data) ==
    IF "data" \notin DOMAIN data THEN Raise("KeyError")
    ELSE IF "values" \notin DOMAIN data["data"] THEN Raise("KeyError")
    ELSE LET values == data["data"]["values"]
         IN  IF "temperatureApparent" \notin DOMAIN values THEN Raise("KeyError")
             ELSE IF values["temperatureApparent"].t = "null" THEN Raise("TypeError")
             ELSE IF values["temperatureApparent"].t = "str" THEN Raise("ValueError")
             ELSE IF "weatherCode" \notin DOMAIN values THEN Raise("KeyError")
             ELSE ReturnReading(
                    [temperature |->
                        Format0f(values["temperatureApparent"].n) \o <<"deg", "C">>,
                     description |-> CodeLookupGet(values["weatherCode"].n)])

\* mutant: every failure turned into the retry signal,
\* `except Exception as e: raise ModelRetry(str(e))`
get_weather_retrying(o) ==
    LET f == WeatherFetch(o)
        r == IF f.kind = "raise" THEN Raise(f.exc) ELSE WeatherParse(f.obj)
    IN  IF r.kind = "raise" /\ r.exc \in ExceptionClasses THEN Raise("ModelRetry") ELSE r

\* get_weather after the stub test: nothing in it catches an exception
get_weather_live(o) ==
    LET f == WeatherFetch(o)
    IN  IF f.kind = "raise" THEN Raise(f.exc) ELSE WeatherParse(f.obj)

\* responses of the weather provider
WeatherFields == {"temperatureApparent", "weatherCode"}

WeatherValues(Temps, Codes) ==
    {ObjectOf("temperatureApparent" :> t @@ "weatherCode" :> c) :
        t \in {<<>>, <<Null>>} \cup {<<Num(x)>> : x \in Temps},
        c \in {<<>>} \cup {<<Num(x)>> : x \in Codes}}

WeatherFailures ==
    {GetRaises("ConnectError"),
     GetResponse(401, "object", EmptyObj),
     GetResponse(500, "invalid", EmptyObj),
     GetResponse(200, "invalid", EmptyObj),
     GetResponse(200, "list", EmptyObj),
     GetResponse(200, "object", EmptyObj),
     GetResponse(200, "object", [data |-> EmptyObj])}

WeatherOutcomes(Temps, Codes) ==
    WeatherFailures \cup
    {GetResponse(200, "object", [data |-> [values |-> v]]) :
        v \in WeatherValues(Temps, Codes)}

\* codes outside the table
OtherCodes == {-1, 0, 1002, 9999}

AllCodes == (DOMAIN code_lookup) \cup OtherCodes
AllTemps == (-MaxTenths)..MaxTenths

\* the responses a whole run is checked over, and those the formatting and
\* the translation are checked over
RunWeatherOutcomes == WeatherOutcomes({-3, 205, 206}, {1000, 9999})
AllWeatherOutcomes == WeatherOutcomes(AllTemps, AllCodes)

-----------------------------------------------------------------------------
(* The run of planner_agent *)

\* Agent(..., retries=2)
retries == 2

LocationUrl == "https://ipapi.co/json/"
WeatherUrl == "https://api.tomorrow.io/v4/weather/realtime"

Init ==
    /\ weather_api_key \in KeyStates
    /\ pc = "start"
    /\ run = "running"
    /\ calls = <<>>
    /\ requests = <<>>
    /\ locResp = <<>>
    /\ location = <<>>
    /\ wArgs = <<>>
    /\ wResp = <<>>
    /\ weather = <<>>
    /\ retries_used = 0
    /\ warnings = 0
    /\ error = ""
    /\ cancelledAt = ""
    /\ output = ""

\* an exception that leaves a tool function other than the retry signal
\* leaves planner_agent.run as well
RunAfterRaise(e) == IF e = CancelledError THEN "cancelled" ELSE "failed"

\* how the run goes on after get_user_location_by_ip finished with r
LocationOutcome(r) ==
    /\ location' = IF r.kind = "return" THEN <<r.loc>> ELSE location
    /\ pc' = IF r.kind = "return" THEN "loc_returned" ELSE "end"
    /\ run' = IF r.kind = "return" THEN run ELSE RunAfterRaise(r.exc)
    /\ error' = IF r.kind = "return" THEN error ELSE r.exc

\* how the run goes on after a get_weather call finished with r: a result is
\* handed to the engine; the retry signal (pydantic_ai's ModelRetry, or
\* arguments that fail validation) makes the engine call the tool again while
\* the tool's retry counter is below retries, and fails the run with
\* UnexpectedModelBehavior after that; any other exception is not handled by
\* the agent and ends the run
WeatherOutcome(r) ==
    LET signal == r.kind = "raise" /\ r.exc = "ModelRetry"
        again == signal /\ retries_used < retries
    IN  /\ weather' = IF r.kind = "return" THEN <<r.reading>> ELSE weather
        /\ retries_used' = IF again THEN retries_used + 1 ELSE retries_used
        /\ pc' = IF r.kind = "return" THEN "weather_returned"
                 ELSE IF again THEN "loc_returned" ELSE "end"
        /\ run' = IF r.kind = "return" \/ again THEN run
                  ELSE IF signal THEN "failed" ELSE RunAfterRaise(r.exc)
        /\ error' = IF r.kind = "return" \/ again THEN error
                    ELSE IF signal THEN "UnexpectedModelBehavior" ELSE r.exc

\* the engine follows the instructions: first get_user_location_by_ip, which
\* runs up to its awaited GET
EngineCallLocation ==
    /\ run = "running"
    /\ pc = "start"
    /\ calls' = Append(calls, "get_user_location_by_ip")
    /\ requests' = Append(requests,
            [url |-> LocationUrl, apikey |-> "", lat |-> Null, lng |-> Null])
    /\ pc' = "loc_await"
    /\ UNCHANGED <<weather_api_key, run, locResp, location, wArgs, wResp,
                   weather, retries_used, warnings, error, cancelledAt, output>>

\* the geolocation GET completes and get_user_location_by_ip runs to its end
LocationRespond ==
    /\ run = "running"
    /\ pc = "loc_await"
    /\ \E o \in LocOutcomes :
          /\ locResp' = <<o>>
          /\ warnings' = warnings + LocationWarns(o)
          /\ LocationOutcome(get_user_location_by_ip(o))
    /\ UNCHANGED <<weather_api_key, calls, requests, wArgs, wResp, weather,
                   retries_used, cancelledAt, output>>

\* lat: float, lng: float: the arguments are validated before the function runs
ValidFloat(v) == v.t = "num"

\* then get_weather with the coordinates of the location; arguments that fail
\* validation are the retry signal, and the function does not run
EngineCallWeather ==
    /\ run = "running"
    /\ pc = "loc_returned"
    /\ LET lat == location[1].lat
           lng == location[1].lng
       IN  IF ~(ValidFloat(lat) /\ ValidFloat(lng))
           THEN /\ WeatherOutcome(Raise("ModelRetry"))
                /\ UNCHANGED <<calls, requests, wArgs, wResp>>
           ELSE /\ calls' = Append(calls, "get_weather")
                /\ wArgs' = <<[lat |-> lat, lng |-> lng]>>
                /\ wResp' = <<>>
                /\ IF StubMode(weather_api_key)
                   THEN /\ WeatherOutcome(ReturnReading(StubReading))
                        /\ UNCHANGED requests
                   ELSE /\ requests' = Append(requests,
                                [url |-> WeatherUrl,
                                 apikey |-> weather_api_key.value,
                                 lat |-> lat, lng |-> lng])
                        /\ pc' = "weather_await"
                        /\ UNCHANGED <<weather, retries_used, run, error>>
    /\ UNCHANGED <<weather_api_key, locResp, location, warnings, cancelledAt,
                   output>>

\* the weather GET completes and get_weather runs to its end
WeatherRespond(outcomes) ==
    /\ run = "running"
    /\ pc = "weather_await"
    /\ \E o \in outcomes :
          /\ wResp' = <<o>>
          /\ WeatherOutcome(get_weather_live(o))
    /\ UNCHANGED <<weather_api_key, calls, requests, locResp, location, wArgs,
                   warnings, cancelledAt, output>>

\* then the answer
EngineAnswer ==
    /\ run = "running"
    /\ pc = "weather_returned"
    /\ output' = "recommendation"
    /\ run' = "done"
    /\ pc' = "end"
    /\ UNCHANGED <<weather_api_key, calls, requests, locResp, location, wArgs,
                   wResp, weather, retries_used, warnings, error, cancelledAt>>

\* the run is cancelled: CancelledError is raised at the await the run is
\* suspended at, inside a tool function when that is the await of its GET
Cancel ==
    /\ run = "running"
    /\ cancelledAt = ""
    /\ cancelledAt' = pc
    /\ IF pc = "loc_await"
       THEN /\ warnings' = warnings + LocationWarns(GetRaises(CancelledError))
            /\ LocationOutcome(get_user_location_by_ip(GetRaises(CancelledError)))
            /\ UNCHANGED <<weather, retries_used>>
       ELSE IF pc = "weather_await"
       THEN /\ WeatherOutcome(get_weather_live(GetRaises(CancelledError)))
            /\ UNCHANGED <<location, warnings>>
       ELSE /\ run' = "cancelled"
            /\ error' = CancelledError
            /\ pc' = "end"
            /\ UNCHANGED <<location, weather, retries_used, warnings>>
    /\ UNCHANGED <<weather_api_key, calls, requests, locResp, wArgs, wResp,
                   output>>

RunNext ==
    \/ EngineCallLocation
    \/ LocationRespond
    \/ EngineCallWeather
    \/ WeatherRespond(RunWeatherOutcomes)
    \/ EngineAnswer

Next ==
    \/ RunNext
    \/ Cancel

Spec == Init /\ [][Next]_vars

\* a run that is not cancelled and whose steps are eventually taken
RunSpec == Init /\ [][RunNext]_vars /\ WF_vars(RunNext)

\* get_weather on its own: the run has reached the call of get_weather after
\* a geolocation GET that failed, and the weather provider may answer with
\* any temperature and any code
WeatherInit ==
    /\ weather_api_key \in KeyStates
    /\ pc = "loc_returned"
    /\ run = "running"
    /\ calls = <<"get_user_location_by_ip">>
    /\ requests = <<[url |-> LocationUrl, apikey |-> "", lat |-> Null, lng |-> Null]>>
    /\ locResp = <<GetRaises("ConnectError")>>
    /\ location = <<Fallback>>
    /\ wArgs = <<>>
    /\ wResp = <<>>
    /\ weather = <<>>
    /\ retries_used = 0
    /\ warnings = 1
    /\ error = ""
    /\ cancelledAt = ""
    /\ output = ""

WeatherNext ==
    \/ EngineCallWeather
    \/ WeatherRespond(AllWeatherOutcomes)
    \/ EngineAnswer

WeatherSpec == WeatherInit /\ [][WeatherNext]_vars

-----------------------------------------------------------------------------
(* Properties *)

\* number of executions of get_weather, and of GETs on the weather provider
WeatherCalls == Cardinality({i \in DOMAIN calls : calls[i] = "get_weather"})
WeatherRequests == Cardinality({i \in DOMAIN requests : requests[i].url = WeatherUrl})

\* the geolocation GET failed: it raised, the status is not 2xx, or the body
\* is not a JSON object
LocationGetFailed ==
    /\ locResp # <<>>
    /\ \/ locResp[1].kind = "raise"
       \/ locResp[1].status < 200
       \/ locResp[1].status > 299
       \/ locResp[1].json # "object"

KyivFallback ==
    [city |-> Str("Kyiv"), region |-> Str("Kyivska oblast"),
     country |-> Str("Ukraina"), lat |-> Num(504501), lng |-> Num(305234)]

\* C1: get_user_location_by_ip is total: whatever the outcome of the
\* geolocation GET the call returns a value, and after a network error, a
\* non-2xx status, a body that is not JSON or a JSON value that is not an
\* object the value is exactly the Kyiv fallback.
C1_LocationTotal ==
    /\ locResp # <<>> => Len(location) = 1
    /\ LocationGetFailed => location = <<KyivFallback>>

C1_Witness ==
    /\ locResp # <<>>
    /\ locResp[1].kind = "response"
    /\ locResp[1].status = 200
    /\ locResp[1].json = "list"
    /\ location = <<KyivFallback>>
    /\ warnings = 1

\* C2: without a credential every executed get_weather call has returned
\* exactly {temperature: '21 °C', description: 'Sunny'} and no GET went to
\* the weather provider; with a credential every executed call issued exactly
\* one GET.
C2_StubIssuesNoRequest ==
    /\ ~weather_api_key.set =>
          /\ WeatherRequests = 0
          /\ WeatherCalls > 0 =>
                weather = <<[temperature |-> <<"2", "1", " ", "deg", "C">>,
                             description |-> "Sunny"]>>
    /\ weather_api_key.set => WeatherRequests = WeatherCalls

C2_Witness ==
    /\ ~weather_api_key.set
    /\ WeatherCalls = 1
    /\ wArgs = <<[lat |-> Num(9990000), lng |-> Num(-1810000)]>>
    /\ weather # <<>>

\* the weather GET failed in one of the ways C3 names: it raised, the status
\* is not 2xx, or the body lacks data.values.temperatureApparent or
\* data.values.weatherCode
WeatherGetFailed ==
    /\ wResp # <<>>
    /\ LET o == wResp[1]
       IN  IF o.kind = "raise" THEN TRUE
           ELSE IF o.status < 200 \/ o.status > 299 THEN TRUE
           ELSE IF o.json # "object" THEN FALSE
           ELSE IF "data" \notin DOMAIN o.obj THEN TRUE
           ELSE IF "values" \notin DOMAIN o.obj["data"] THEN TRUE
           ELSE WeatherFields \ DOMAIN o.obj["data"]["values"] # {}

\* C3: in live mode a failed weather GET never yields a reading: the call
\* ends with an exception that leaves the tool, and no WeatherReading is
\* returned.
C3_NoFabricatedReading ==
    WeatherGetFailed =>
        /\ weather = <<>>
        /\ error \in ExceptionClasses
        /\ run # "done"
        /\ output = ""

C3_Witness ==
    /\ wResp # <<>>
    /\ wResp[1].status = 200
    /\ wResp[1].json = "object"
    /\ "data" \in DOMAIN wResp[1].obj
    /\ "values" \in DOMAIN wResp[1].obj["data"]
    /\ DOMAIN wResp[1].obj["data"]["values"] = {"temperatureApparent"}
    /\ error = "KeyError"
    /\ weather = <<>>

LiveReading == wResp # <<>> /\ weather # <<>>

\* the fields of that response
LiveCode == wResp[1].obj["data"]["values"]["weatherCode"].n
LiveTenths == wResp[1].obj["data"]["values"]["temperatureApparent"].n

\* C5: the translation of weather codes is total over the integers: the table
\* has 23 codes, a code of the table gives the table's label (1000 gives
\* 'Clear, Sunny', 8000 gives 'Thunderstorm'), every other integer gives
\* 'Unknown', and the description of every reading get_weather returns, stub
\* or live, is a non-empty string.
C5_TranslationTotal ==
    /\ Cardinality(DOMAIN code_lookup) = 23
    /\ weather # <<>> => weather[1].description # ""
    /\ LiveReading =>
          /\ LiveCode \in DOMAIN code_lookup =>
                weather[1].description = code_lookup[LiveCode]
          /\ LiveCode \notin DOMAIN code_lookup =>
                weather[1].description = "Unknown"
          /\ LiveCode = 1000 => weather[1].description = "Clear, Sunny"
          /\ LiveCode = 8000 => weather[1].description = "Thunderstorm"

C5_Witness ==
    /\ LiveReading
    /\ LiveCode = 9999
    /\ weather[1].description = "Unknown"

\* the geolocation GET gave a 2xx response whose body is a JSON object
LocationGetObject ==
    /\ locResp # <<>>
    /\ locResp[1].kind = "response"
    /\ locResp[1].status >= 200
    /\ locResp[1].status <= 299
    /\ locResp[1].json = "object"

\* the value of a field of that object, or the given default when it is missing
FieldOr(field, default) ==
    IF field \in DOMAIN locResp[1].obj THEN locResp[1].obj[field] ELSE default

\* C6: after a successful geolocation response that is a JSON object, city,
\* region, country, lat and lng are the response's city, region,
\* country_name, latitude and longitude where present, and 'Unknown' (names)
\* or 0.0 (coordinates) where missing, field by field; a missing field does
\* not give the Kyiv fallback.
C6_FieldMapping ==
    LocationGetObject =>
        /\ Len(location) = 1
        /\ location[1].city = FieldOr("city", Str("Unknown"))
        /\ location[1].region = FieldOr("region", Str("Unknown"))
        /\ location[1].country = FieldOr("country_name", Str("Unknown"))
        /\ location[1].lat = FieldOr("latitude", Num(0))
        /\ location[1].lng = FieldOr("longitude", Num(0))
        /\ location[1] # KyivFallback
        /\ warnings = 0

C6_Witness ==
    /\ LocationGetObject
    /\ DOMAIN locResp[1].obj = {"region", "longitude"}
    /\ location # <<>>
    /\ location[1].city = Str("Unknown")
    /\ location[1].lat = Num(0)
    /\ location[1].region = Str("Lviv Oblast")
    /\ location[1].lng = Num(240297)

\* C7: every Location that get_user_location_by_ip returns is fully
\* populated: no field is null, lat is within [-90, 90] and lng within
\* [-180, 180].
C7_FullyPopulated ==
    location # <<>> =>
        /\ location[1].city.t = "str"
        /\ location[1].region.t = "str"
        /\ location[1].country.t = "str"
        /\ location[1].lat.t = "num"
        /\ location[1].lng.t = "num"
        /\ location[1].lat.n >= -900000
        /\ location[1].lat.n <= 900000
        /\ location[1].lng.n >= -1800000
        /\ location[1].lng.n <= 1800000

\* the decimal text of an integer
IntText(n) == IF n < 0 THEN <<"-">> \o Digits(-n) ELSE Digits(n)

\* |a|
Abs(a) == IF a < 0 THEN -a ELSE a

\* C8 as claimed: the temperature of a live reading is the text of an integer
\* nearest to the value (either neighbour of an exact half), followed directly
\* by the degree sign and 'C'.
C8_NearestIntegerText ==
    LiveReading =>
        \E n \in (-(MaxTenths \div 10) - 1)..((MaxTenths \div 10) + 1) :
            /\ Abs(10 * n - LiveTenths) <= 5
            /\ weather[1].temperature = IntText(n) \o <<"deg", "C">>

\* the value of a digit character, -1 for any other character
DigitValue(c) ==
    IF \E d \in 0..9 : DigitChars[d + 1] = c
    THEN CHOOSE d \in 0..9 : DigitChars[d + 1] = c
    ELSE -1

RECURSIVE ParseNat(_)
\* the natural number a sequence of digit characters is the text of
ParseNat(cs) ==
    IF Len(cs) = 0 THEN 0
    ELSE 10 * ParseNat(SubSeq(cs, 1, Len(cs) - 1)) + DigitValue(cs[Len(cs)])

\* C8 as amended: the temperature of a live reading is a '-' exactly when the
\* value is negative (so a value in [-0.5, 0) gives '-0°C'), then the digits,
\* without leading zeros, of the magnitude rounded to the nearest integer
\* with an exact half going to the even neighbour (20.5 gives '20°C', 21.5
\* gives '22°C'), then the degree sign and 'C' with nothing in between.
C8_SignedHalfEvenText ==
    LiveReading =>
        LET text == weather[1].temperature
            signed == text[1] = "-"
            first == IF signed THEN 2 ELSE 1
            digits == SubSeq(text, first, Len(text) - 2)
            n == ParseNat(digits)
            m == Abs(LiveTenths)
        IN  /\ Len(text) >= first + 2
            /\ SubSeq(text, Len(text) - 1, Len(text)) = <<"deg", "C">>
            /\ \A i \in DOMAIN digits : DigitValue(digits[i]) >= 0
            /\ Len(digits) > 1 => digits[1] # "0"
            /\ signed <=> LiveTenths < 0
            /\ Abs(10 * n - m) <= 5
            /\ Abs(10 * n - m) = 5 => n % 2 = 0

C8_Witness ==
    /\ LiveReading
    /\ LiveTenths = -3
    /\ weather[1].temperature = <<"-", "0", "deg", "C">>

\* the scenario of C9: no weather credential and a geolocation GET that failed
StubRunAfterLocationFailure == ~weather_api_key.set /\ LocationGetFailed

\* C9: with no weather credential and a failing geolocation GET, a run of the
\* instruction-following engine never raises, calls get_user_location_by_ip
\* and then get_weather, passes get_weather lat 50.4501 and lng 30.5234,
\* receives the stub reading, and ends with a final recommendation.
C9_EndToEnd ==
    /\ [](StubRunAfterLocationFailure =>
            /\ run \in {"running", "done"}
            /\ error = ""
            /\ location = <<KyivFallback>>
            /\ run = "done" =>
                  /\ calls = <<"get_user_location_by_ip", "get_weather">>
                  /\ Len(requests) = 1
                  /\ wArgs = <<[lat |-> Num(504501), lng |-> Num(305234)]>>
                  /\ weather = <<[temperature |-> <<"2", "1", " ", "deg", "C">>,
                                  description |-> "Sunny"]>>
                  /\ output # "")
    /\ (StubRunAfterLocationFailure ~> (run = "done"))

C9_Witness ==
    /\ StubRunAfterLocationFailure
    /\ run = "done"
    /\ output # ""
    /\ Len(calls) = 2

\* C10: a cancellation that arrives while get_user_location_by_ip awaits its
\* GET is not absorbed by the except clause: no Location is returned, no
\* warning is logged, get_weather is not called and the run is cancelled; a
\* cancellation that arrives while get_weather awaits its GET returns no
\* reading, and the run is cancelled without an answer.
C10_CancelNotAbsorbed ==
    /\ cancelledAt = "loc_await" =>
          /\ location = <<>>
          /\ warnings = 0
          /\ calls = <<"get_user_location_by_ip">>
          /\ run = "cancelled"
          /\ error = CancelledError
    /\ cancelledAt = "weather_await" =>
          /\ weather = <<>>
          /\ output = ""
          /\ run = "cancelled"
          /\ error = CancelledError

C10_Witness ==
    /\ cancelledAt = "loc_await"
    /\ run = "cancelled"
    /\ location = <<>>

=============================================================================
